---------------------------- MODULE Spec2Model ----------------------------
(***************************************************************************)
(* A model of the MCP tool: the FileOperations and GitOperations classes   *)
(* (src/mcp/file_ops.py, src/mcp/git_ops.py) called directly, as the CLI   *)
(* does, and the HTTP server (src/mcp/server.py) that runs the same calls  *)
(* as background jobs tracked in the active_operations map.                *)
(*                                                                         *)
(* A Python str is a sequence of one-character strings, so that the        *)
(* validation and the path arithmetic are computed character by character. *)
(* The filesystem is a function from absolute, resolved paths (sequences   *)
(* of names) to entries; there are no symbolic links and no permissions.   *)
(***************************************************************************)
EXTENDS Integers, Sequences, FiniteSets, TLC

VARIABLES
    fs,                 \* the filesystem: absolute path -> [kind, content]
    git,                \* the Git repositories: absolute path -> repository state
    call,               \* the last direct call of a FileOperations/GitOperations method
    active_operations,  \* server.py:32, operation id -> operation record
    loop,               \* the ids of the job that holds the event loop: {} or {id}
    pc,                 \* operation id -> position of its background task
    result,             \* operation id -> the local variable `result` of its job
    response,           \* the HTTP response being sent, or NoResponse
    streams,            \* the /events streams: the events sent and the generator's position
    clock               \* the time datetime.now() returns

vars == <<fs, git, call, active_operations, loop, pc, result, response, streams,
          clock>>

serverVars == <<active_operations, loop, pc, result, response, streams, clock>>

-----------------------------------------------------------------------------
(* Bounds of the model *)

\* operations submitted over HTTP
MaxOps == 2
\* /events streams connected
MaxStreams == 2
\* /events streams connected while the task functions run
MaxJobStreams == 1

-----------------------------------------------------------------------------
(* Python str *)

S_empty == <<>>
S_r == <<"r">>
S_q == <<"q">>
S_f == <<"f">>
S_s == <<"s">>
S_a == <<"a">>
S_x == <<"x">>
S_w == <<"w">>
S_c == <<"c">>
S_dotdot == <<".", ".">>
S_dotgit == <<".", "g", "i", "t">>
S_abs_r == <<"/", "w", "/", "r">>
S_abs_e == <<"/", "e">>
S_abs_x == <<"/", "x">>
S_up_x == <<".", ".", "/", ".", ".", "/", "x">>
S_r_s_a == <<"r", "/", "s", "/", "a">>
S_r_a == <<"r", "/", "a">>
S_r_t == <<"r", "/", "t">>
S_r_s == <<"r", "/", "s">>
S_y == <<"y">>
S_Y == <<"Y">>
S_n == <<"n">>
S_data == <<"d">>

LowerCase == <<"a", "b", "c", "d", "e", "f", "g", "h", "i", "j", "k", "l", "m",
               "n", "o", "p", "q", "r", "s", "t", "u", "v", "w", "x", "y", "z">>
UpperCase == <<"A", "B", "C", "D", "E", "F", "G", "H", "I", "J", "K", "L", "M",
               "N", "O", "P", "Q", "R", "S", "T", "U", "V", "W", "X", "Y", "Z">>

UpperChar(c) ==
    IF \E i \in 1..Len(LowerCase) : LowerCase[i] = c
    THEN UpperCase[CHOOSE i \in 1..Len(LowerCase) : LowerCase[i] = c]
    ELSE c

LowerChar(c) ==
    IF \E i \in 1..Len(UpperCase) : UpperCase[i] = c
    THEN LowerCase[CHOOSE i \in 1..Len(UpperCase) : UpperCase[i] = c]
    ELSE c

\* str.upper() and str.lower()
StrUpper(s) == [i \in 1..Len(s) |-> UpperChar(s[i])]
StrLower(s) == [i \in 1..Len(s) |-> LowerChar(s[i])]

Whitespace == {" ", "\t", "\n", "\r", "\f"}

\* not s.strip()
StripIsEmpty(s) == \A i \in 1..Len(s) : s[i] \in Whitespace

\* bool(s) of a str
Truthy(s) == Len(s) > 0

\* s.startswith(p)
StartsWith(s, p) == Len(p) <= Len(s) /\ SubSeq(s, 1, Len(p)) = p

\* index of the first sep in s, or 0
FirstIndex(s, sep) ==
    IF \E i \in 1..Len(s) : s[i] = sep
    THEN CHOOSE i \in 1..Len(s) : s[i] = sep /\ \A j \in 1..(i - 1) : s[j] # sep
    ELSE 0

\* s.split(sep), sep one character
RECURSIVE Split(_, _)
SplitAt(s, sep, i) ==
    IF i = 0 THEN <<s>>
    ELSE <<SubSeq(s, 1, i - 1)>> \o Split(SubSeq(s, i + 1, Len(s)), sep)

Split(s, sep) == SplitAt(s, sep, FirstIndex(s, sep))

\* sep.join(parts)
RECURSIVE Join(_, _)
Join(parts, sep) ==
    IF Len(parts) = 0 THEN <<>>
    ELSE IF Len(parts) = 1 THEN parts[1]
    ELSE parts[1] \o <<sep>> \o Join(Tail(parts), sep)

-----------------------------------------------------------------------------
(* pathlib.PurePosixPath: [root, names] *)

RECURSIVE LeadingSlashes(_)
LeadingSlashes(s) ==
    IF Len(s) > 0 /\ s[1] = "/" THEN 1 + LeadingSlashes(Tail(s)) ELSE 0

RECURSIVE DropDots(_)
DropDots(parts) ==
    IF Len(parts) = 0 THEN <<>>
    ELSE IF parts[1] = <<>> \/ parts[1] = <<".">> THEN DropDots(Tail(parts))
    ELSE <<parts[1]>> \o DropDots(Tail(parts))

\* Path(s): exactly two leading slashes are kept as the root "//", empty and "."
\* components are dropped, ".." components are kept
ParsePath(s) ==
    LET n == LeadingSlashes(s)
    IN  [root  |-> IF n = 0 THEN <<>> ELSE IF n = 2 THEN <<"/", "/">> ELSE <<"/">>,
         names |-> DropDots(Split(s, "/"))]

\* str(path)
PathStr(p) ==
    IF p.root = <<>> /\ p.names = <<>> THEN <<".">>
    ELSE p.root \o Join(p.names, "/")

\* path.parts
PathParts(p) == (IF p.root = <<>> THEN <<>> ELSE <<p.root>>) \o p.names

\* path.name
PathName(p) == IF p.names = <<>> THEN <<>> ELSE p.names[Len(p.names)]

\* path.parent
PathParent(p) ==
    IF p.names = <<>> THEN p
    ELSE [root |-> p.root, names |-> SubSeq(p.names, 1, Len(p.names) - 1)]

\* path / other: an absolute right operand replaces the left one
PathJoin(p, q) ==
    IF q.root # <<>> THEN q
    ELSE [root |-> p.root, names |-> p.names \o q.names]

-----------------------------------------------------------------------------
(* The operating system's view of the filesystem *)

\* the working directory of the process, /w
Cwd == <<S_w>>

DirEntry == [kind |-> "dir", content |-> <<>>]
FileEntry(c) == [kind |-> "file", content |-> c]

\* path lookup: every component but the last must be an existing directory
\* (".." included); the last may be missing.  err is "" or the errno's exception
RECURSIVE Walk(_, _, _)
Walk(f, cur, names) ==
    IF names = <<>> THEN [err |-> "", path |-> cur]
    ELSE IF cur \notin DOMAIN f THEN [err |-> "FileNotFoundError", path |-> cur]
    ELSE IF f[cur].kind # "dir" THEN [err |-> "NotADirectoryError", path |-> cur]
    ELSE IF names[1] = S_dotdot
         THEN Walk(f, IF cur = <<>> THEN cur ELSE SubSeq(cur, 1, Len(cur) - 1),
                   Tail(names))
         ELSE Walk(f, Append(cur, names[1]), Tail(names))

Resolve(f, p) == Walk(f, IF p.root = <<>> THEN Cwd ELSE <<>>, p.names)

\* Path.exists(), is_dir(), is_file(): False when the lookup fails
Found(f, r) == r.err = "" /\ r.path \in DOMAIN f
FoundKind(f, r, kind) == Found(f, r) /\ f[r.path].kind = kind
Exists(f, p) == Found(f, Resolve(f, p))
IsDir(f, p) == FoundKind(f, Resolve(f, p), "dir")
IsFile(f, p) == FoundKind(f, Resolve(f, p), "file")

\* any(path.iterdir()) of a directory
HasChild(f, d) == \E c \in DOMAIN f : Len(c) = Len(d) + 1 /\ SubSeq(c, 1, Len(d)) = d

DirNonEmpty(f, p) == HasChild(f, Resolve(f, p).path)

\* f with an entry added at the absolute path a
Put(f, a, e) == [c \in DOMAIN f \cup {a} |-> IF c = a THEN e ELSE f[c]]

\* os.mkdir(p)
MkdirAt(f, r) ==
    IF r.err # "" THEN [fs |-> f, exc |-> r.err]
    ELSE IF r.path \in DOMAIN f THEN [fs |-> f, exc |-> "FileExistsError"]
    ELSE [fs |-> Put(f, r.path, DirEntry), exc |-> ""]

OsMkdir(f, p) == MkdirAt(f, Resolve(f, p))

\* the except OSError clause of Path.mkdir: with exist_ok, an error other than
\* FileNotFoundError is dropped when the path is a directory
MkdirExistOk(f, p, made) ==
    IF made.exc = "" \/ made.exc = "FileNotFoundError" THEN made
    ELSE IF IsDir(f, p) THEN [fs |-> f, exc |-> ""]
    ELSE made

\* self.mkdir(mode, parents=False, exist_ok=exist_ok) once the parent is made
MkdirAfterParent(p, up) ==
    IF up.exc # "" THEN up ELSE MkdirExistOk(up.fs, p, OsMkdir(up.fs, p))

\* Path.mkdir(parents=True, exist_ok=True)
RECURSIVE MkdirParents(_, _)
MkdirFirst(f, p, first) ==
    IF first.exc = "FileNotFoundError" /\ PathParent(p) # p
    THEN MkdirAfterParent(p, MkdirParents(f, PathParent(p)))
    ELSE MkdirExistOk(f, p, first)

MkdirParents(f, p) == MkdirFirst(f, p, OsMkdir(f, p))

\* Path.touch(): os.utime on an existing entry, else os.open(O_CREAT | O_WRONLY)
TouchAt(f, r) ==
    IF r.err # "" THEN [fs |-> f, exc |-> r.err]
    ELSE IF r.path \in DOMAIN f THEN [fs |-> f, exc |-> ""]
    ELSE [fs |-> Put(f, r.path, FileEntry(<<>>)), exc |-> ""]

Touch(f, p) == TouchAt(f, Resolve(f, p))

\* the absolute path a lies in the directory d or below it
Inside(d, a) == Len(d) <= Len(a) /\ SubSeq(a, 1, Len(d)) = d

-----------------------------------------------------------------------------
(* FileOperations, src/mcp/file_ops.py *)

\* what input() reads: a line, or end of file (EOFError)
StdinEOF == [eof |-> TRUE, line |-> <<>>]
StdinLine(s) == [eof |-> FALSE, line |-> s]
StdinValues == {StdinEOF, StdinLine(S_y), StdinLine(S_Y), StdinLine(S_n), StdinLine(S_empty)}

InvalidChars == {"<", ">", ":", "\"", "/", "\\", "|", "?", "*"}

Digits19 == <<"1", "2", "3", "4", "5", "6", "7", "8", "9">>

ReservedNames ==
    {<<"C", "O", "N">>, <<"P", "R", "N">>, <<"A", "U", "X">>, <<"N", "U", "L">>}
    \cup {<<"C", "O", "M", Digits19[i]>> : i \in 1..9}
    \cup {<<"L", "P", "T", Digits19[i]>> : i \in 1..9}

MaxFilenameLen == 255

\* an is_valid_filename that compares the reserved names as they are written
is_valid_filename_case_sensitive(filename) ==
    IF \E i \in 1..Len(filename) : filename[i] \in InvalidChars THEN FALSE
    ELSE IF Split(filename, ".")[1] \in ReservedNames THEN FALSE
    ELSE IF Len(filename) > MaxFilenameLen THEN FALSE
    ELSE IF StripIsEmpty(filename) THEN FALSE
    ELSE TRUE

is_valid_filename(filename) ==
    IF \E i \in 1..Len(filename) : filename[i] \in InvalidChars THEN FALSE
    ELSE IF StrUpper(Split(filename, ".")[1]) \in ReservedNames THEN FALSE
    ELSE IF Len(filename) > MaxFilenameLen THEN FALSE
    ELSE IF StripIsEmpty(filename) THEN FALSE
    ELSE TRUE

\* an is_valid_path without the test for '..'
is_valid_path_with_dotdot(path) ==
    \A i \in 1..Len(PathParts(ParsePath(path))) :
        is_valid_filename(PathParts(ParsePath(path))[i])

is_valid_path(path) ==
    LET parts == PathParts(ParsePath(path))
    IN  IF \E i \in 1..Len(parts) : parts[i] = S_dotdot THEN FALSE
        ELSE \A i \in 1..Len(parts) : is_valid_filename(parts[i])

\* create_directory(directory_path, dry_run): [fs, ret]
Returned(made) == [fs |-> made.fs, ret |-> made.exc = ""]

\* a create_directory that makes the directory in a dry run too
create_directory_always(f, path_obj, dry_run) ==
    IF Exists(f, path_obj)
    THEN [fs |-> f, ret |-> IsDir(f, path_obj)]
    ELSE Returned(MkdirParents(f, path_obj))

create_directory(f, path_obj, dry_run) ==
    IF Exists(f, path_obj)
    THEN [fs |-> f, ret |-> IsDir(f, path_obj)]
    ELSE IF dry_run THEN [fs |-> f, ret |-> TRUE]
    ELSE Returned(MkdirParents(f, path_obj))

\* create_file(file_path, dry_run, overwrite): [fs, ret, prompted]; stdin is
\* what input() reads if the call prompts
Prompted(r, asks) == [fs |-> r.fs, ret |-> r.ret, prompted |-> asks]

\* lines 157-168 of create_file, after the parent directory was asked for
create_file_in(dir, path_obj, dry_run) ==
    IF ~dir.ret THEN [fs |-> dir.fs, ret |-> FALSE]
    ELSE IF dry_run THEN [fs |-> dir.fs, ret |-> TRUE]
    ELSE Returned(Touch(dir.fs, path_obj))

\* a create_file that takes every answer to its prompt for a yes
create_file_at_any_answer(f, path_obj, exists, dry_run, overwrite, stdin) ==
    IF ~is_valid_filename(PathName(path_obj))
    THEN [fs |-> f, ret |-> FALSE, prompted |-> FALSE]
    ELSE IF exists /\ ~overwrite /\ stdin.eof
    THEN [fs |-> f, ret |-> FALSE, prompted |-> TRUE]
    ELSE IF exists /\ dry_run
    THEN [fs |-> f, ret |-> TRUE, prompted |-> ~overwrite]
    ELSE Prompted(create_file_in(create_directory(f, PathParent(path_obj), dry_run),
                                 path_obj, dry_run),
                  exists /\ ~overwrite)

create_file_at(f, path_obj, exists, dry_run, overwrite, stdin) ==
    IF ~is_valid_filename(PathName(path_obj))
    THEN [fs |-> f, ret |-> FALSE, prompted |-> FALSE]
    ELSE IF exists /\ ~overwrite /\ (stdin.eof \/ StrLower(stdin.line) # S_y)
    THEN [fs |-> f, ret |-> FALSE, prompted |-> TRUE]
    ELSE IF exists /\ dry_run
    THEN [fs |-> f, ret |-> TRUE, prompted |-> ~overwrite]
    ELSE Prompted(create_file_in(create_directory(f, PathParent(path_obj), dry_run),
                                 path_obj, dry_run),
                  exists /\ ~overwrite)

create_file(f, file_path, dry_run, overwrite, stdin) ==
    create_file_at(f, ParsePath(file_path), Exists(f, ParsePath(file_path)),
                   dry_run, overwrite, stdin)

\* add_file_to_section(repo_path, section, filename, dry_run, overwrite)
\* repo_path_obj / section / filename, lines 209-210
SectionFile(repo_path, section, filename) ==
    PathJoin(PathJoin(ParsePath(repo_path), ParsePath(section)), ParsePath(filename))

add_file_to_section(f, repo_path, section, filename, dry_run, overwrite, stdin) ==
    IF ~Exists(f, ParsePath(repo_path))
    THEN [fs |-> f, ret |-> FALSE, prompted |-> FALSE]
    ELSE IF ~IsDir(f, ParsePath(repo_path))
    THEN [fs |-> f, ret |-> FALSE, prompted |-> FALSE]
    ELSE IF ~is_valid_path(section)
    THEN [fs |-> f, ret |-> FALSE, prompted |-> FALSE]
    ELSE create_file(f, PathStr(SectionFile(repo_path, section, filename)),
                     dry_run, overwrite, stdin)

-----------------------------------------------------------------------------
(* GitOperations, src/mcp/git_ops.py *)

U_https_github == <<"h", "t", "t", "p", "s", ":", "/", "/", "g", "i", "t", "h", "u", "b", ".", "c", "o", "m", "/">>
U_valid == U_https_github \o <<"u", "/", "r", ".", "g", "i", "t">>
U_other_host == <<"h", "t", "t", "p", "s", ":", "/", "/", "g", "i", "t", "l", "a", "b", ".", "c", "o", "m", "/", "u", "/", "r">>
U_no_repo == U_https_github \o <<"u">>
S_github_com == <<"g", "i", "t", "h", "u", "b", ".", "c", "o", "m">>
S_www_github_com == <<"w", "w", "w", ".", "g", "i", "t", "h", "u", "b", ".", "c", "o", "m">>
S_git_suffix == <<".", "g", "i", "t">>
S_token == <<"k">>

DigitChars == {"0", "1", "2", "3", "4", "5", "6", "7", "8", "9"}
LetterChars == {LowerCase[i] : i \in 1..26} \cup {UpperCase[i] : i \in 1..26}
SchemeChars == LetterChars \cup DigitChars \cup {"+", "-", "."}
\* [a-zA-Z0-9._-]
RepoNameChars == LetterChars \cup DigitChars \cup {".", "_", "-"}

\* the prefix of s before the first character of the set stop
RECURSIVE UpTo(_, _)
UpTo(s, stop) ==
    IF Len(s) = 0 \/ s[1] \in stop THEN <<>> ELSE <<s[1]>> \o UpTo(Tail(s), stop)

\* s.strip('/')
RECURSIVE LStripSlash(_)
LStripSlash(s) == IF Len(s) > 0 /\ s[1] = "/" THEN LStripSlash(Tail(s)) ELSE s
RECURSIVE RStripSlash(_)
RStripSlash(s) ==
    IF Len(s) > 0 /\ s[Len(s)] = "/" THEN RStripSlash(SubSeq(s, 1, Len(s) - 1)) ELSE s
StripSlash(s) == RStripSlash(LStripSlash(s))

\* s.endswith(p)
EndsWith(s, p) == Len(p) <= Len(s) /\ SubSeq(s, Len(s) - Len(p) + 1, Len(s)) = p

\* urlsplit first drops the leading spaces and control characters of the URL
\* and every tab, carriage return and newline in it
UnsafeUrlChars == {"\t", "\r", "\n"}
RECURSIVE LStripSpace(_)
LStripSpace(s) ==
    IF Len(s) > 0 /\ s[1] \in Whitespace THEN LStripSpace(Tail(s)) ELSE s
CleanUrl(s) == SelectSeq(LStripSpace(s), LAMBDA c : c \notin UnsafeUrlChars)

\* urllib.parse.uses_params, the schemes of the inputs among them
UsesParams == {<<>>, <<"h", "t", "t", "p">>, <<"h", "t", "t", "p", "s">>,
               <<"f", "t", "p">>, <<"s", "f", "t", "p">>}

\* urllib.parse.urlparse(url): [netloc, path].  A scheme is split off when the
\* text before the first ':' starts with a letter and holds scheme characters
\* only; the netloc follows "//" up to the next '/', '?' or '#'; the path ends
\* at the first '?' or '#' and, for a scheme that uses params, at the first ';'
\* of its last segment
urlparse(url0) ==
    LET url == CleanUrl(url0)
        i == FirstIndex(url, ":")
        hasScheme == /\ i > 1
                     /\ url[1] \in LetterChars
                     /\ \A j \in 1..(i - 1) : url[j] \in SchemeChars
        scheme == IF hasScheme THEN StrLower(SubSeq(url, 1, i - 1)) ELSE <<>>
        rest == IF hasScheme THEN SubSeq(url, i + 1, Len(url)) ELSE url
        hasNetloc == StartsWith(rest, <<"/", "/">>)
        afterSlashes == SubSeq(rest, 3, Len(rest))
        netloc == IF hasNetloc THEN UpTo(afterSlashes, {"/", "?", "#"}) ELSE <<>>
        tail == IF hasNetloc
                THEN SubSeq(afterSlashes, Len(netloc) + 1, Len(afterSlashes))
                ELSE rest
        path == UpTo(tail, {"?", "#"})
        segs == Split(path, "/")
        last == segs[Len(segs)]
        cut == IF scheme \in UsesParams THEN UpTo(last, {";"}) ELSE last
    IN  [netloc |-> netloc,
         path   |-> SubSeq(path, 1, Len(path) - Len(last)) \o cut]

\* re.compile(r'^[a-zA-Z0-9._-]+$').match(s): '$' also matches before one
\* trailing newline
MatchesRepoName(s) ==
    LET body == IF Len(s) > 0 /\ s[Len(s)] = "\n" THEN SubSeq(s, 1, Len(s) - 1) ELSE s
    IN  Len(body) > 0 /\ \A j \in 1..Len(body) : body[j] \in RepoNameChars

is_valid_repo_url(url) ==
    LET parsed == urlparse(url)
        path_parts == Split(StripSlash(parsed.path), "/")
    IN  IF parsed.netloc \notin {S_github_com, S_www_github_com} THEN FALSE
        ELSE IF Len(path_parts) < 2 THEN FALSE
        ELSE LET username == path_parts[1]
                 repo0 == path_parts[2]
                 repo == IF EndsWith(repo0, S_git_suffix)
                         THEN SubSeq(repo0, 1, Len(repo0) - 4) ELSE repo0
             IN  IF username = <<>> \/ repo0 = <<>> THEN FALSE
                 ELSE IF ~MatchesRepoName(username) \/ ~MatchesRepoName(repo) THEN FALSE
                 ELSE TRUE

\* a repository: the files of its last commit, the commits push_changes created
\* in it, how many of them the remote holds, and the URL of its remote origin
NewRepo(url) == [tracked |-> {}, commits |-> 0, remote |-> 0, url |-> url]

\* Repo(path) succeeds
RepoAt(g, r) == r.err = "" /\ r.path \in DOMAIN g

is_git_repository(f, g, path) == RepoAt(g, Resolve(f, ParsePath(path)))

\* the files of the working tree of the repository at the absolute path d
WorkingTree(f, d) ==
    {a \in DOMAIN f : /\ Inside(d, a)
                      /\ f[a].kind = "file"
                      /\ ~Inside(Append(d, S_dotgit), a)}

\* repo.is_dirty() or repo.untracked_files
HasChanges(f, g, d) == WorkingTree(f, d) # g[d].tracked

\* Repo.clone_from(repo_url, local_path); net is what the network does.  git
\* refuses a non-empty destination and creates the missing leading directories
Cloned(f, g, repo_url, d) ==
    [fs  |-> Put(f, Append(d, S_dotgit), DirEntry),
     git |-> [c \in DOMAIN g \cup {d} |-> IF c = d THEN NewRepo(repo_url) ELSE g[c]],
     exc |-> ""]

clone_into(f, g, repo_url, local_path_obj, made) ==
    IF made.exc # "" THEN [fs |-> f, git |-> g, exc |-> "GitCommandError"]
    ELSE Cloned(made.fs, g, repo_url, Resolve(made.fs, local_path_obj).path)

clone_from(f, g, repo_url, local_path_obj, net) ==
    IF Exists(f, local_path_obj)
       /\ (~IsDir(f, local_path_obj) \/ DirNonEmpty(f, local_path_obj))
    THEN [fs |-> f, git |-> g, exc |-> "GitCommandError"]
    ELSE IF net # "ok" THEN [fs |-> f, git |-> g, exc |-> "GitCommandError"]
    ELSE clone_into(f, g, repo_url, local_path_obj, MkdirParents(f, local_path_obj))

\* clone_repository(repo_url, local_path, dry_run): [fs, git, ret, prompted]
CloneReturned(cl, asks) ==
    [fs |-> cl.fs, git |-> cl.git, ret |-> cl.exc = "", prompted |-> asks]

\* lines 129-138 of clone_repository, after the parent directories were made
clone_after_mkdir(up, g, repo_url, local_path_obj, net, asks) ==
    IF up.exc # "" THEN [fs |-> up.fs, git |-> g, ret |-> FALSE, prompted |-> asks]
    ELSE CloneReturned(clone_from(up.fs, g, repo_url, local_path_obj, net), asks)

\* a clone_repository that looks at the destination before the URL
clone_repository_at_path_first(f, g, repo_url, local_path_obj, asks, dry_run, stdin, net) ==
    IF asks /\ (stdin.eof \/ StrLower(stdin.line) # S_y)
    THEN [fs |-> f, git |-> g, ret |-> FALSE, prompted |-> TRUE]
    ELSE IF ~is_valid_repo_url(repo_url)
    THEN [fs |-> f, git |-> g, ret |-> FALSE, prompted |-> asks]
    ELSE [fs |-> f, git |-> g, ret |-> dry_run, prompted |-> asks]

clone_repository_at(f, g, repo_url, local_path_obj, asks, dry_run, stdin, net) ==
    IF ~is_valid_repo_url(repo_url)
    THEN [fs |-> f, git |-> g, ret |-> FALSE, prompted |-> FALSE]
    ELSE IF asks /\ (stdin.eof \/ StrLower(stdin.line) # S_y)
    THEN [fs |-> f, git |-> g, ret |-> FALSE, prompted |-> TRUE]
    ELSE IF ~asks /\ IsFile(f, local_path_obj)
    THEN [fs |-> f, git |-> g, ret |-> FALSE, prompted |-> FALSE]
    ELSE IF dry_run
    THEN [fs |-> f, git |-> g, ret |-> TRUE, prompted |-> asks]
    ELSE clone_after_mkdir(MkdirParents(f, PathParent(local_path_obj)), g, repo_url,
                           local_path_obj, net, asks)

clone_repository(f, g, repo_url, local_path, dry_run, stdin, net) ==
    clone_repository_at(f, g, repo_url, ParsePath(local_path),
                        IsDir(f, ParsePath(local_path))
                        /\ DirNonEmpty(f, ParsePath(local_path)),
                        dry_run, stdin, net)

\* the remote URL with the token put in, lines 198-203
auth_url(remote_url, github_token) ==
    IF Truthy(github_token) /\ StartsWith(remote_url, U_https_github)
    THEN <<"h", "t", "t", "p", "s", ":", "/", "/">> \o github_token
         \o <<"@", "g", "i", "t", "h", "u", "b", ".", "c", "o", "m", "/">>
         \o SubSeq(remote_url, Len(U_https_github) + 1, Len(remote_url))
    ELSE remote_url

\* repo.git.add(A=True); repo.index.commit(commit_message)
stage_and_commit(f, g, d) ==
    [g EXCEPT ![d].tracked = WorkingTree(f, d), ![d].commits = @ + 1]

\* origin.push(default_branch): the remote receives every local commit, or the
\* command fails (GitCommandError) and the remote is left as it was
push(g, d, net) ==
    IF net = "ok" THEN [g EXCEPT ![d].remote = g[d].commits] ELSE g

\* push_changes(local_path, commit_message, dry_run): [git, ret, trace];
\* github_token is what config.get_github_token() returns, net what the network does
\* origin.set_url(auth_url), lines 197-203
set_url(g, d, github_token) == [g EXCEPT ![d].url = auth_url(@, github_token)]

\* a push_changes that commits and pushes a clean working tree too
push_changes_at_clean_too(f, g, d, dry_run, github_token, net) ==
    IF dry_run
    THEN [git |-> g, ret |-> TRUE, trace |-> <<>>]
    ELSE [git   |-> push(set_url(stage_and_commit(f, g, d), d, github_token), d, net),
          ret   |-> net = "ok",
          trace |-> <<"add", "commit", "push">>]

\* a push_changes that takes its commit back when the push fails
push_changes_at_rolling_back(f, g, d, dry_run, github_token, net) ==
    IF ~HasChanges(f, g, d)
    THEN [git |-> g, ret |-> TRUE, trace |-> <<>>]
    ELSE IF dry_run
    THEN [git |-> g, ret |-> TRUE, trace |-> <<>>]
    ELSE [git   |-> IF net = "ok"
                    THEN push(set_url(stage_and_commit(f, g, d), d, github_token), d, net)
                    ELSE g,
          ret   |-> net = "ok",
          trace |-> <<"add", "commit", "push">>]

push_changes_at(f, g, d, dry_run, github_token, net) ==
    IF ~HasChanges(f, g, d)
    THEN [git |-> g, ret |-> TRUE, trace |-> <<>>]
    ELSE IF dry_run
    THEN [git |-> g, ret |-> TRUE, trace |-> <<>>]
    ELSE [git   |-> push(set_url(stage_and_commit(f, g, d), d, github_token), d, net),
          ret   |-> net = "ok",
          trace |-> <<"add", "commit", "push">>]

push_changes(f, g, local_path, dry_run, github_token, net) ==
    IF ~is_git_repository(f, g, local_path)
    THEN [git |-> g, ret |-> FALSE, trace |-> <<>>]
    ELSE push_changes_at(f, g, Resolve(f, ParsePath(local_path)).path, dry_run,
                         github_token, net)

-----------------------------------------------------------------------------
(* MCPConfig, src/mcp/config.py *)

\* Python's None and a value that is not None
None == <<>>
Some(v) == <<v>>

\* s.strip()
RECURSIVE RStripSpace(_)
RStripSpace(s) ==
    IF Len(s) > 0 /\ s[Len(s)] \in Whitespace
    THEN RStripSpace(SubSeq(s, 1, Len(s) - 1)) ELSE s
Strip(s) == RStripSpace(LStripSpace(s))

\* Path.home(), self.config_dir and self.config_file
Home == <<<<"h">>>>
ConfigDir == Append(Home, <<".", "m", "c", "p">>)
ConfigFile == Append(ConfigDir, <<"c", "o", "n", "f", "i", "g", ".", "j", "s", "o", "n">>)

\* the keys of the configuration and the defaults of __init__
K_github_token == <<"g", "i", "t", "h", "u", "b", "_", "t", "o", "k", "e", "n">>
K_default_branch == <<"d", "e", "f", "a", "u", "l", "t", "_", "b", "r", "a", "n", "c", "h">>
K_log_level == <<"l", "o", "g", "_", "l", "e", "v", "e", "l">>
S_main == <<"m", "a", "i", "n">>
S_INFO == <<"I", "N", "F", "O">>
default_config ==
    [k \in {K_github_token, K_default_branch, K_log_level} |->
        IF k = K_github_token THEN <<>>
        ELSE IF k = K_default_branch THEN S_main ELSE S_INFO]

\* dict.update
DictUpdate(a, b) ==
    [k \in DOMAIN a \cup DOMAIN b |-> IF k \in DOMAIN b THEN b[k] ELSE a[k]]

\* json.dump(config, f, indent=2) of a dict of strings, the keys in the order
\* __init__ puts them in; the values hold nothing that JSON escapes
Quoted(s) == <<"\"">> \o s \o <<"\"">>
JsonMember(config, k) == <<" ", " ">> \o Quoted(k) \o <<":", " ">> \o Quoted(config[k])
json_dump(config) ==
    <<"{", "\n">> \o JsonMember(config, K_github_token) \o <<",", "\n">>
    \o JsonMember(config, K_default_branch) \o <<",", "\n">>
    \o JsonMember(config, K_log_level) \o <<"\n", "}">>

\* json.load(f) of an object of strings: [ok, value]; not ok is the
\* JSONDecodeError of a text that is no JSON, and the error dict.update raises
\* for a JSON value that is no object
IsQuoted(s) == Len(s) >= 2 /\ s[1] = "\"" /\ s[Len(s)] = "\""
Unquoted(s) == SubSeq(s, 2, Len(s) - 1)
MemberKey(m) == Strip(SubSeq(m, 1, FirstIndex(m, ":") - 1))
MemberValue(m) == Strip(SubSeq(m, FirstIndex(m, ":") + 1, Len(m)))
MemberOk(m) ==
    FirstIndex(m, ":") > 0 /\ IsQuoted(MemberKey(m)) /\ IsQuoted(MemberValue(m))

\* the object of the members: the last member of a key gives its value
JsonObject(members) ==
    [k \in {Unquoted(MemberKey(members[i])) : i \in 1..Len(members)} |->
        Unquoted(MemberValue(members[
            CHOOSE i \in 1..Len(members) :
                /\ Unquoted(MemberKey(members[i])) = k
                /\ \A j \in (i + 1)..Len(members) :
                       Unquoted(MemberKey(members[j])) # k]))]

JsonMembers(members) ==
    IF \A i \in 1..Len(members) : MemberOk(members[i])
    THEN [ok |-> TRUE, value |-> JsonObject(members)]
    ELSE [ok |-> FALSE, value |-> <<>>]

JsonBody(inner) ==
    IF inner = <<>> THEN [ok |-> TRUE, value |-> <<>>]
    ELSE JsonMembers(Split(inner, ","))

json_load_text(s) ==
    IF Len(s) >= 2 /\ s[1] = "{" /\ s[Len(s)] = "}"
    THEN JsonBody(Strip(Unquoted(s)))
    ELSE [ok |-> FALSE, value |-> <<>>]

json_load(text) == json_load_text(Strip(text))

\* lines 87-95 of load_config: the file's object over the defaults; the
\* defaults alone when open() or json.load raises
config_from_file(f, defaults) ==
    IF ~FoundKind(f, [err |-> "", path |-> ConfigFile], "file") THEN defaults
    ELSE IF ~json_load(f[ConfigFile].content).ok THEN defaults
    ELSE DictUpdate(defaults, json_load(f[ConfigFile].content).value)

\* a load_config in which the file's token wins over the environment's
load_config_file_first(f, env) ==
    IF env # None /\ Truthy(env[1])
    THEN DictUpdate([k \in {K_github_token} |-> env[1]],
                    config_from_file(f, default_config))
    ELSE config_from_file(f, default_config)

\* load_config(): env is os.getenv('GITHUB_TOKEN'), None when not set
load_config(f, env) ==
    IF env # None /\ Truthy(env[1])
    THEN DictUpdate(config_from_file(f, default_config),
                    [k \in {K_github_token} |-> env[1]])
    ELSE config_from_file(f, default_config)

\* a get_github_token that returns the token as it is resolved
token_as_resolved(config) == Some(config[K_github_token])

\* get_github_token(): None for a token that is not truthy
token_or_none(config) ==
    IF K_github_token \notin DOMAIN config THEN None
    ELSE IF ~Truthy(config[K_github_token]) THEN None
    ELSE Some(config[K_github_token])

get_github_token(f, env) == token_or_none(load_config(f, env))

\* get_default_branch()
get_default_branch(f, env) ==
    IF K_default_branch \in DOMAIN load_config(f, env)
    THEN load_config(f, env)[K_default_branch] ELSE S_main

\* init_config(): lines are the lines the standard input holds, each input()
\* taking the next one and raising EOFError when none is left
\* lines 62-63: open(self.config_file, 'w') and json.dump
save_config(f, config) ==
    IF FoundKind(f, [err |-> "", path |-> ConfigFile], "dir")
    THEN [fs |-> f, ret |-> FALSE]
    ELSE [fs |-> Put(f, ConfigFile, FileEntry(json_dump(config))), ret |-> TRUE]

\* lines 52-59: an entry that is not blank replaces the default
Entered(config, k, entry) ==
    IF Truthy(Strip(entry)) THEN DictUpdate(config, [j \in {k} |-> Strip(entry)])
    ELSE config

init_config_entries(f, lines) ==
    IF Len(lines) < 2 THEN [fs |-> f, ret |-> FALSE]
    ELSE save_config(f, Entered(Entered(default_config, K_github_token, lines[1]),
                                K_default_branch, lines[2]))

\* an init_config that overwrites whatever the answer is
init_config_overwriting(f, lines) ==
    IF ConfigFile \in DOMAIN f /\ Len(lines) > 0
    THEN init_config_entries(f, Tail(lines))
    ELSE init_config_entries(f, lines)

init_config(f, lines) ==
    IF ConfigFile \notin DOMAIN f THEN init_config_entries(f, lines)
    ELSE IF Len(lines) = 0 THEN [fs |-> f, ret |-> FALSE]
    ELSE IF StrLower(lines[1]) # S_y THEN [fs |-> f, ret |-> FALSE]
    ELSE init_config_entries(f, Tail(lines))

-----------------------------------------------------------------------------
(* The initial state *)

OpIds == 1..MaxOps

NoResponse == [endpoint |-> "", key |-> "", code |-> 0, id |-> None, body |-> <<>>]
NoCall == [fn |-> "", args |-> <<>>, dry_run |-> FALSE, overwrite |-> FALSE,
           ret |-> FALSE, prompted |-> FALSE, trace |-> <<>>, created |-> {}]

\* /, the working directory /w, a cloned repository /w/r with one file that is
\* not committed yet, a plain file /w/f, and the home directory with the
\* directory .mcp that MCPConfig() makes
RepoDir == <<S_w, S_r>>
InitFs ==
    LET paths == {<<>>, <<S_w>>, RepoDir, Append(RepoDir, S_dotgit),
                  Append(RepoDir, S_a), <<S_w, S_f>>, Home, ConfigDir}
    IN  [a \in paths |-> IF a = Append(RepoDir, S_a) \/ a = <<S_w, S_f>>
                         THEN FileEntry(S_data) ELSE DirEntry]
InitGit == [d \in {RepoDir} |-> NewRepo(U_valid)]

Init ==
    /\ fs = InitFs
    /\ git = InitGit
    /\ call = NoCall
    /\ active_operations = <<>>
    /\ loop = {}
    /\ pc = <<>>
    /\ result = <<>>
    /\ response = NoResponse
    /\ streams = <<>>
    /\ clock = 1

-----------------------------------------------------------------------------
(* The command line, src/mcp/cli.py, and direct calls of the public methods *)

StdinCli == {StdinEOF, StdinLine(S_y), StdinLine(S_Y), StdinLine(S_n)}
Network == {"ok", "GitCommandError"}
Tokens == {S_empty, S_token}
CloneUrls == {U_valid, U_other_host, U_no_repo}
ClonePaths == {S_c, S_r, S_f}
PushPaths == {S_r, S_c, S_f}
RepoPaths == {S_r, S_abs_r}
Sections == {S_empty, S_s, S_dotdot, S_abs_e}
Filenames == {S_a, S_up_x, S_abs_x}
FilePaths == {S_r_a, S_r_s_a}
DirPaths == {S_r_s, S_f, S_q}

Called(fn, args, dry_run, overwrite, ret, prompted, trace, f2) ==
    [fn |-> fn, args |-> args, dry_run |-> dry_run, overwrite |-> overwrite,
     ret |-> ret, prompted |-> prompted, trace |-> trace,
     created |-> DOMAIN f2 \ DOMAIN fs]

handle_clone ==
    \E repo_url \in CloneUrls, local_path \in ClonePaths, dry_run \in BOOLEAN,
       stdin \in StdinCli, net \in Network :
        /\ call.fn = ""
        /\ \E r \in {clone_repository(fs, git, repo_url, local_path, dry_run, stdin, net)} :
               /\ fs' = r.fs
               /\ git' = r.git
               /\ call' = Called("clone_repository", <<repo_url, local_path>>, dry_run,
                                 FALSE, r.ret, r.prompted, <<>>, r.fs)
               /\ UNCHANGED serverVars

handle_push ==
    \E local_path \in PushPaths, dry_run \in BOOLEAN, github_token \in Tokens,
       net \in Network :
        /\ call.fn = ""
        /\ \E r \in {push_changes(fs, git, local_path, dry_run, github_token, net)} :
               /\ git' = r.git
               /\ call' = Called("push_changes", <<local_path>>, dry_run, FALSE, r.ret,
                                 FALSE, r.trace, fs)
               /\ UNCHANGED <<fs, serverVars>>

handle_add_file ==
    \E local_path \in RepoPaths, section \in Sections, filename \in Filenames,
       dry_run \in BOOLEAN, overwrite \in BOOLEAN, stdin \in StdinCli :
        /\ call.fn = ""
        /\ \E r \in {add_file_to_section(fs, local_path, section, filename, dry_run,
                                        overwrite, stdin)} :
               /\ fs' = r.fs
               /\ call' = Called("add_file_to_section", <<local_path, section, filename>>,
                                 dry_run, overwrite, r.ret, r.prompted, <<>>, r.fs)
               /\ UNCHANGED <<git, serverVars>>

call_create_file ==
    \E file_path \in FilePaths, dry_run \in BOOLEAN, overwrite \in BOOLEAN,
       stdin \in StdinCli :
        /\ call.fn = ""
        /\ \E r \in {create_file(fs, file_path, dry_run, overwrite, stdin)} :
               /\ fs' = r.fs
               /\ call' = Called("create_file", <<file_path, stdin>>, dry_run, overwrite, r.ret,
                                 r.prompted, <<>>, r.fs)
               /\ UNCHANGED <<git, serverVars>>

call_create_directory ==
    \E directory_path \in DirPaths, dry_run \in BOOLEAN :
        /\ call.fn = ""
        /\ \E r \in {create_directory(fs, ParsePath(directory_path), dry_run)} :
               /\ fs' = r.fs
               /\ call' = Called("create_directory", <<directory_path>>, dry_run, FALSE,
                                 r.ret, FALSE, <<>>, r.fs)
               /\ UNCHANGED <<git, serverVars>>

\* the command returns and the process exits, main()
cli_exit ==
    /\ call.fn # ""
    /\ call' = NoCall
    /\ UNCHANGED <<fs, git, serverVars>>

CliNext ==
    \/ cli_exit
    \/ handle_clone
    \/ handle_push
    \/ handle_add_file
    \/ call_create_file
    \/ call_create_directory

CliSpec == Init /\ [][CliNext]_vars

-----------------------------------------------------------------------------
(* The HTTP server, src/mcp/server.py *)

\* server_config.api_key, and the bearer credentials a client may send
ApiKey == "mcp-default-key"
Keys == {ApiKey, "wrong-key"}

S_m == <<"m">>
SrvCloneArgs == {<<U_valid, S_c>>, <<U_other_host, S_c>>, <<U_valid, S_r>>}
SrvPushPaths == {S_r, S_f}
\* repo_path, section, filename, content
SrvAddFileArgs == {<<S_r, S_s, S_a, S_empty>>, <<S_r, S_s, S_a, S_data>>,
                   <<S_abs_r, S_s, S_a, S_empty>>, <<S_r, S_s, S_up_x, S_empty>>}
StdinServer == {StdinEOF, StdinLine(S_y), StdinLine(S_n)}

Terminal == {"completed", "failed"}

\* str(uuid.uuid4()): an id that no operation has; ids are only compared for
\* equality, so the least unused one stands for any
uuid4(used) == CHOOSE i \in OpIds \ used : \A j \in OpIds \ used : i <= j

\* a verify_api_key that lets every credential pass
verify_api_key_any(credentials) == TRUE

\* verify_api_key: TRUE when the credentials pass, else HTTPException(401)
verify_api_key(credentials) == credentials = ApiKey

\* a create_operation that keeps the new operation only
create_operation_evicting(ops, operation_id, operation_type, params, now) ==
    [i \in {operation_id} |->
        [id           |-> operation_id,
         type         |-> operation_type,
         status       |-> "pending",
         message      |-> "Operation " \o operation_type \o " created",
         params       |-> params,
         created_at   |-> now,
         completed_at |-> None,
         result       |-> None,
         error        |-> None]]

\* create_operation(operation_type, params) under the id uuid4 gave, at time now
create_operation(ops, operation_id, operation_type, params, now) ==
    [i \in DOMAIN ops \cup {operation_id} |->
        IF i = operation_id
        THEN [id           |-> operation_id,
              type         |-> operation_type,
              status       |-> "pending",
              message      |-> "Operation " \o operation_type \o " created",
              params       |-> params,
              created_at   |-> now,
              completed_at |-> None,
              result       |-> None,
              error        |-> None]
        ELSE ops[i]]

\* an update_operation that puts a failed operation back to pending
update_operation_reopening(ops, operation_id, status, message, res, error, now) ==
    IF operation_id \in DOMAIN ops
    THEN [ops EXCEPT ![operation_id] =
            [@ EXCEPT !.status = IF status = "failed" THEN "pending" ELSE status,
                      !.message = message,
                      !.result = res,
                      !.error = error]]
    ELSE ops

\* an update_operation that stamps completed_at on completed operations only
update_operation_unstamped(ops, operation_id, status, message, res, error, now) ==
    IF operation_id \in DOMAIN ops
    THEN [ops EXCEPT ![operation_id] =
            [@ EXCEPT !.status = status,
                      !.message = message,
                      !.result = res,
                      !.error = error,
                      !.completed_at = IF status = "completed" THEN Some(now) ELSE @]]
    ELSE ops

\* update_operation(operation_id, status, message, result, error) at time now
update_operation(ops, operation_id, status, message, res, error, now) ==
    IF operation_id \in DOMAIN ops
    THEN [ops EXCEPT ![operation_id] =
            [@ EXCEPT !.status = status,
                      !.message = message,
                      !.result = res,
                      !.error = error,
                      !.completed_at = IF status \in Terminal THEN Some(now) ELSE @]]
    ELSE ops

\* the fields OperationResponse requires (no default), lines 61-68
RequiredFields == {"operation_id", "status", "message", "created_at"}

\* OperationResponse(**operation): pydantic raises ValidationError when a
\* required field is missing, and ignores the keys that are no field
OperationResponse(operation) ==
    IF RequiredFields \subseteq DOMAIN operation
    THEN Some([status |-> operation.status, message |-> operation.message])
    ELSE None

\* what the handler sends after `return OperationResponse(**operation)`: an
\* exception raised in the handler is answered 500
Answer(endpoint, key, id, model) ==
    [endpoint |-> endpoint, key |-> key, id |-> id,
     code |-> IF model = None THEN 500 ELSE 200,
     body |-> model]

Unauthorized(endpoint, key) ==
    [endpoint |-> endpoint, key |-> key, id |-> None, code |-> 401, body |-> <<>>]

\* the event loop is free to run a request handler
CanHandle == loop = {} /\ response = NoResponse /\ call = NoCall

\* POST /api/clone, /api/push, /api/add-file: the operation is created, the task
\* is added to background_tasks, and the response model is built.  FastAPI runs
\* the tasks of a response the handler returned; none when the handler raised
Submit(endpoint, key, operation_type, params) ==
    /\ CanHandle
    /\ IF ~verify_api_key(key)
       THEN /\ response' = Unauthorized(endpoint, key)
            /\ UNCHANGED <<active_operations, pc, result>>
       ELSE /\ Cardinality(DOMAIN active_operations) < MaxOps
            /\ \E operation_id \in {uuid4(DOMAIN active_operations)} :
                \E ops \in {create_operation(active_operations, operation_id,
                                             operation_type, params, clock)} :
                    /\ active_operations' = ops
                    /\ response' = Answer(endpoint, key, Some(operation_id),
                                          OperationResponse(ops[operation_id]))
                    /\ pc' = [i \in DOMAIN ops |->
                                IF i = operation_id
                                THEN IF OperationResponse(ops[operation_id]) = None
                                     THEN "unscheduled" ELSE "scheduled"
                                ELSE pc[i]]
                    /\ result' = [i \in DOMAIN ops |->
                                    IF i = operation_id THEN None ELSE result[i]]
    /\ UNCHANGED <<fs, git, call, loop, streams, clock>>

api_clone ==
    \E key \in Keys, a \in SrvCloneArgs :
        Submit("/api/clone", key, "clone", [repo_url |-> a[1], local_path |-> a[2]])

api_push ==
    \E key \in Keys, repo_path \in SrvPushPaths :
        Submit("/api/push", key, "push",
               [repo_path |-> repo_path, commit_message |-> S_m])

api_add_file ==
    \E key \in Keys, a \in SrvAddFileArgs :
        Submit("/api/add-file", key, "add-file",
               [repo_path |-> a[1], section |-> a[2], filename |-> a[3],
                content |-> a[4]])

\* GET /api/operations/{operation_id}
get_operation ==
    \E key \in Keys, operation_id \in OpIds :
        /\ CanHandle
        /\ response' =
             IF ~verify_api_key(key) THEN Unauthorized("/api/operations/{id}", key)
             ELSE IF operation_id \notin DOMAIN active_operations
             THEN [endpoint |-> "/api/operations/{id}", key |-> key,
                   id |-> Some(operation_id), code |-> 404, body |-> <<>>]
             ELSE Answer("/api/operations/{id}", key, Some(operation_id),
                         OperationResponse(active_operations[operation_id]))
        /\ UNCHANGED <<fs, git, call, active_operations, loop, pc, result, streams,
                       clock>>

\* GET /api/operations: one OperationResponse per operation
list_operations ==
    \E key \in Keys :
        /\ CanHandle
        /\ response' =
             IF ~verify_api_key(key) THEN Unauthorized("/api/operations", key)
             ELSE IF \E i \in DOMAIN active_operations :
                        OperationResponse(active_operations[i]) = None
             THEN Answer("/api/operations", key, None, None)
             ELSE Answer("/api/operations", key, None,
                         Some([i \in DOMAIN active_operations |->
                                 OperationResponse(active_operations[i])]))
        /\ UNCHANGED <<fs, git, call, active_operations, loop, pc, result, streams,
                       clock>>

\* GET /status: no credentials asked; the count of pending and running operations
get_status ==
    /\ CanHandle
    /\ response' =
         [endpoint |-> "/status", key |-> "", id |-> None, code |-> 200,
          body |-> Some(Cardinality({i \in DOMAIN active_operations :
                        active_operations[i].status \in {"pending", "running"}}))]
    /\ UNCHANGED <<fs, git, call, active_operations, loop, pc, result, streams, clock>>

\* line 357: the first event of a stream
ConnectedEvent == [type |-> "connected", message |-> "Connected to MCP Server events"]

\* a stream as GET /events opens it: the generator has sent the first event and
\* is outside the for loop; at is the operation whose event it is suspended on
\* in line 386 (0 outside the loop), used the size the dict iterator was made for
NewStream ==
    [events |-> <<ConnectedEvent>>, open |-> TRUE, at |-> 0, used |-> 0,
     current_time |-> 0]

\* GET /events: the stream is opened and its generator sends the first event
stream_events ==
    \E key \in Keys :
        /\ CanHandle
        /\ IF ~verify_api_key(key)
           THEN /\ response' = Unauthorized("/events", key)
                /\ UNCHANGED streams
           ELSE /\ Len(streams) < MaxStreams
                /\ streams' = Append(streams, NewStream)
                /\ response' = [endpoint |-> "/events", key |-> key, id |-> None,
                                code |-> 200, body |-> <<>>]
        /\ UNCHANGED <<fs, git, call, active_operations, loop, pc, result, clock>>

\* the response leaves the server
send_response ==
    /\ response # NoResponse
    /\ response' = NoResponse
    /\ UNCHANGED <<fs, git, call, active_operations, loop, pc, result, streams, clock>>

Handlers ==
    \/ api_clone
    \/ api_push
    \/ api_add_file
    \/ get_operation
    \/ list_operations
    \/ get_status
    \/ stream_events
    \/ send_response

Next == Handlers

\* the server as it runs
Spec == Init /\ [][Next]_vars

-----------------------------------------------------------------------------
(* The background task functions, lines 143-216 *)

Outcome(f, g, raised, ret, prompted) ==
    [fs |-> f, git |-> g, raised |-> raised, ret |-> ret, prompted |-> prompted]

CloneOutcome(r) == Outcome(r.fs, r.git, None, Some(r.ret), r.prompted)
PushOutcome(f, r) == Outcome(f, r.git, None, Some(r.ret), FALSE)
AddFileOutcome(g, r) == Outcome(r.fs, g, None, Some(r.ret), r.prompted)

\* lines 148-156: the URL is validated, then clone_repository is called
clone_job(f, g, params, stdin, net) ==
    IF ~is_valid_repo_url(params.repo_url)
    THEN Outcome(f, g, Some("Invalid repository URL"), None, FALSE)
    ELSE CloneOutcome(clone_repository(f, g, params.repo_url, params.local_path,
                                       FALSE, stdin, net))

\* lines 171-179
push_job(f, g, params, github_token, net) ==
    IF ~is_git_repository(f, g, params.repo_path)
    THEN Outcome(f, g, Some("Not a valid Git repository"), None, FALSE)
    ELSE PushOutcome(f, push_changes(f, g, params.repo_path, FALSE, github_token, net))

\* lines 194-204: content is passed in the place of dry_run
add_file_job(f, g, params, stdin) ==
    IF ~is_valid_filename(params.filename)
    THEN Outcome(f, g, Some("Invalid filename"), None, FALSE)
    ELSE IF ~is_valid_path(params.repo_path)
    THEN Outcome(f, g, Some("Invalid repository path"), None, FALSE)
    ELSE AddFileOutcome(g, add_file_to_section(f, params.repo_path, params.section,
                                               params.filename, Truthy(params.content),
                                               FALSE, stdin))

\* the result dict of the completed update
ResultOf(operation, ret) ==
    IF operation.type = "clone" THEN [path |-> operation.params.local_path]
    ELSE IF operation.type = "push"
    THEN [commit_message |-> operation.params.commit_message]
    ELSE [path |-> ret[1], section |-> operation.params.section,
          filename |-> operation.params.filename]

\* the messages of the three task functions
RunningMessage(operation_type) ==
    IF operation_type = "clone" THEN "Cloning repository..."
    ELSE IF operation_type = "push" THEN "Pushing changes..."
    ELSE "Creating file..."

CompletedMessage(operation_type) ==
    IF operation_type = "clone" THEN "Repository cloned successfully"
    ELSE IF operation_type = "push" THEN "Changes pushed successfully"
    ELSE "File created successfully"

FailedMessage(operation_type) ==
    IF operation_type = "clone" THEN "Clone operation failed"
    ELSE IF operation_type = "push" THEN "Push operation failed"
    ELSE "Add file operation failed"

\* the last update of a task: completed after the call returned, failed in the
\* except clause
final_update(ops, operation_id, o, now) ==
    IF o.raised # None
    THEN update_operation(ops, operation_id, "failed",
                          FailedMessage(ops[operation_id].type), None, o.raised, now)
    ELSE update_operation(ops, operation_id, "completed",
                          CompletedMessage(ops[operation_id].type),
                          Some(ResultOf(ops[operation_id], o.ret)), None, now)

Finish(operation_id, o) ==
    /\ active_operations' = final_update(active_operations, operation_id, o, clock)
    /\ fs' = o.fs
    /\ git' = o.git
    /\ result' = [result EXCEPT ![operation_id] = o.ret]
    /\ pc' = [pc EXCEPT ![operation_id] = "done"]
    /\ loop' = {}
    /\ UNCHANGED <<call, response, streams, clock>>

\* the call is inside input(), and the event loop with it
Block(operation_id) ==
    /\ pc' = [pc EXCEPT ![operation_id] = "input"]
    /\ UNCHANGED <<fs, git, call, active_operations, loop, result, response, streams,
                   clock>>

\* a task function that gives the event loop back after its first statement
task_start_yielding ==
    \E operation_id \in DOMAIN active_operations :
        /\ CanHandle
        /\ pc[operation_id] \in {"scheduled", "unscheduled"}
        /\ active_operations' =
             update_operation(active_operations, operation_id, "running",
                              RunningMessage(active_operations[operation_id].type),
                              None, None, clock)
        /\ pc' = [pc EXCEPT ![operation_id] = "yielded"]
        /\ UNCHANGED <<fs, git, call, loop, result, response, streams, clock>>

\* the task function is awaited with the parameters of its operation: its first
\* statement, update_operation(operation_id, "running", ...)
task_start ==
    \E operation_id \in DOMAIN active_operations :
        /\ CanHandle
        /\ pc[operation_id] \in {"scheduled", "unscheduled"}
        /\ active_operations' =
             update_operation(active_operations, operation_id, "running",
                              RunningMessage(active_operations[operation_id].type),
                              None, None, clock)
        /\ pc' = [pc EXCEPT ![operation_id] = "running"]
        /\ loop' = {operation_id}
        /\ UNCHANGED <<fs, git, call, result, response, streams, clock>>

AtCall(operation_id, operation_type) ==
    /\ loop = {operation_id}
    /\ pc[operation_id] = "running"
    /\ active_operations[operation_id].type = operation_type

execute_clone_operation ==
    \E operation_id \in DOMAIN active_operations, net \in Network :
        /\ AtCall(operation_id, "clone")
        /\ \E o \in {clone_job(fs, git, active_operations[operation_id].params,
                                 StdinEOF, net)} :
               IF o.prompted THEN Block(operation_id) ELSE Finish(operation_id, o)

execute_push_operation ==
    \E operation_id \in DOMAIN active_operations, net \in Network,
       github_token \in Tokens :
        /\ AtCall(operation_id, "push")
        /\ \E o \in {push_job(fs, git, active_operations[operation_id].params,
                                github_token, net)} :
               Finish(operation_id, o)

execute_add_file_operation ==
    \E operation_id \in DOMAIN active_operations :
        /\ AtCall(operation_id, "add-file")
        /\ \E o \in {add_file_job(fs, git, active_operations[operation_id].params,
                                    StdinEOF)} :
               IF o.prompted THEN Block(operation_id) ELSE Finish(operation_id, o)

\* input() returns a line of the server's standard input, or raises EOFError
task_input ==
    \E operation_id \in DOMAIN active_operations, stdin \in StdinServer,
       net \in Network :
        /\ loop = {operation_id}
        /\ pc[operation_id] = "input"
        /\ \E o \in {IF active_operations[operation_id].type = "clone"
                      THEN clone_job(fs, git, active_operations[operation_id].params,
                                     stdin, net)
                      ELSE add_file_job(fs, git,
                                        active_operations[operation_id].params, stdin)} :
               Finish(operation_id, o)

Tasks ==
    \/ task_start
    \/ execute_clone_operation
    \/ execute_push_operation
    \/ execute_add_file_operation
    \/ task_input

JobNext == Handlers \/ Tasks

-----------------------------------------------------------------------------
(* The generator of an /events stream, lines 352-395 *)

\* datetime.min, before every time of the clock
datetime_min == 0

\* operation.get('last_sent_at', datetime.min)
last_sent_at(operation) ==
    IF "last_sent_at" \in DOMAIN operation THEN operation.last_sent_at
    ELSE datetime_min

\* operation.get('updated_at', operation['created_at']); no code sets the key
updated_at(operation) ==
    IF "updated_at" \in DOMAIN operation THEN operation.updated_at
    ELSE operation.created_at

\* line 372: the operation counts as recently modified
Modified(operation) == last_sent_at(operation) < updated_at(operation)

\* lines 373-379: the event of an operation
operation_update(operation_id, operation) ==
    [type         |-> "operation_update",
     operation_id |-> operation_id,
     status       |-> operation.status,
     message      |-> operation.message]

\* line 387: operation['last_sent_at'] = current_time
SetLastSentAt(operation, current_time) ==
    [k \in DOMAIN operation \cup {"last_sent_at"} |->
        IF k = "last_sent_at" THEN current_time ELSE operation[k]]

\* line 394: the event of the except clause, after which the generator ends
ErrorEvent(message) == [type |-> "error", message |-> message]

\* the for loop goes on after the operation `after`: the next operation, in the
\* order of the dict, that line 372 lets through, or 0 when the dict is exhausted
NextModified(ops, after) ==
    IF \E i \in DOMAIN ops : i > after /\ Modified(ops[i])
    THEN CHOOSE i \in DOMAIN ops :
            /\ i > after /\ Modified(ops[i])
            /\ \A j \in DOMAIN ops : (j > after /\ Modified(ops[j])) => i <= j
    ELSE 0

\* the generator yields the event of operation k (line 386) and is suspended
\* there, or leaves the for loop for the sleep of line 390 when k is 0
Yield(stream, ops, k) ==
    IF k = 0 THEN [stream EXCEPT !.at = 0, !.used = 0]
    ELSE [stream EXCEPT !.events = Append(@, operation_update(k, ops[k])), !.at = k]

\* lines 392-395: the exception is sent as an error event and the loop is left
Raise(stream, message) ==
    [stream EXCEPT !.events = Append(@, ErrorEvent(message)), !.open = FALSE, !.at = 0, !.used = 0]

\* a stream wakes from its sleep for a pass that has something to send: lines
\* 362-386 up to the first yield.  The generator runs when no job holds the
\* event loop.  (The heartbeat, thirty seconds after the last one, is no part
\* of the model: the clock stands still.)
generator_pass ==
    \E s \in DOMAIN streams :
        /\ loop = {}
        /\ streams[s].open
        /\ streams[s].at = 0
        /\ NextModified(active_operations, 0) # 0
        /\ streams' = [streams EXCEPT
                         ![s] = Yield([@ EXCEPT
                                          !.used = Cardinality(DOMAIN active_operations),
                                          !.current_time = clock],
                                      active_operations,
                                      NextModified(active_operations, 0))]
        /\ UNCHANGED <<fs, git, call, active_operations, loop, pc, result, response,
                       clock>>

\* a stream suspended in line 386 goes on: line 387 marks the operation, then
\* the dict iterator is asked for the next item and raises RuntimeError when
\* the dict has another size than at the start of the loop
generator_resume ==
    \E s \in DOMAIN streams :
        /\ loop = {}
        /\ streams[s].open
        /\ streams[s].at # 0
        /\ \E ops \in {[active_operations EXCEPT
                          ![streams[s].at] =
                              SetLastSentAt(@, streams[s].current_time)]} :
              /\ active_operations' = ops
              /\ streams' = [streams EXCEPT
                               ![s] = IF Cardinality(DOMAIN ops) # @.used
                                      THEN Raise(@, "dictionary changed size during iteration")
                                      ELSE Yield(@, ops, NextModified(ops, @.at))]
        /\ UNCHANGED <<fs, git, call, loop, pc, result, response, clock>>

event_generator == generator_pass \/ generator_resume

\* the server and the generators of its streams
StreamNext == Handlers \/ event_generator

StreamSpec == Init /\ [][StreamNext]_vars

\* GET /events while the task functions run
job_stream_events == stream_events /\ Len(streams') <= MaxJobStreams

EventNext ==
    \/ api_clone
    \/ api_push
    \/ api_add_file
    \/ get_operation
    \/ list_operations
    \/ get_status
    \/ job_stream_events
    \/ send_response
    \/ Tasks
    \/ event_generator

\* the server, its task functions and the generators of its streams
EventSpec == Init /\ [][EventNext]_vars

\* the server's handlers, and the task functions awaited for the operations
\* created, whether or not FastAPI came to schedule them
JobSpec == Init /\ [][JobNext]_vars

-----------------------------------------------------------------------------
(* Properties of the direct calls, checked under CliSpec *)

\* the absolute path of the first argument of the call recorded, the repository
CallRepoDir == Resolve(fs, ParsePath(call.args[1])).path

\* C6: add_file_to_section creates no file and no directory outside repo_path,
\* and when it returns True without dry_run the file it was asked for exists
\* inside repo_path/section.  The code joins filename to the section path
\* without validating it, so this fails for "../../x" and for "/x".
C6_AddFileStaysInRepo ==
    call.fn = "add_file_to_section" =>
        /\ \A a \in call.created : Inside(CallRepoDir, a)
        /\ (call.ret /\ ~call.dry_run) =>
             /\ Exists(fs, SectionFile(call.args[1], call.args[2], call.args[3]))
             /\ Inside(Resolve(fs, PathJoin(ParsePath(call.args[1]),
                                            ParsePath(call.args[2]))).path,
                       Resolve(fs, SectionFile(call.args[1], call.args[2],
                                               call.args[3])).path)

C10_TrueMeansPushed ==
    (call.fn = "push_changes" /\ ~call.dry_run /\ call.ret) =>
        git[CallRepoDir].remote = git[CallRepoDir].commits

\* the absolute path of the repository a call about to be recorded is given
NextRepoDir == Resolve(fs, ParsePath(call'.args[1])).path

\* C22: push_changes returns False without staging, committing or pushing when
\* local_path is no Git repository, and returns True without a commit and
\* without the remote when the working tree has nothing to commit.
C22_NothingToPush ==
    [][(call.fn = "" /\ call'.fn = "push_changes") =>
         /\ ~is_git_repository(fs, git, call'.args[1])
            => (~call'.ret /\ call'.trace = <<>> /\ git' = git)
         /\ (/\ is_git_repository(fs, git, call'.args[1])
             /\ ~HasChanges(fs, git, NextRepoDir))
            => (call'.ret /\ call'.trace = <<>> /\ git' = git)]_vars

\* a call without dry_run on a repository that has a commit and a clean
\* working tree returned True and ran no git command
C22_Witness ==
    /\ call.fn = "push_changes"
    /\ ~call.dry_run
    /\ is_git_repository(fs, git, call.args[1])
    /\ git[CallRepoDir].commits > 0
    /\ call.trace = <<>>
    /\ call.ret

\* C23: push_changes without dry_run, on a repository with changes, stages,
\* commits and pushes in that order; when the push fails it returns False, the
\* commit made stays in the local repository and the working tree is clean.
C23_CommitStaysWhenPushFails ==
    [][(/\ call.fn = ""
        /\ call'.fn = "push_changes"
        /\ ~call'.dry_run
        /\ is_git_repository(fs, git, call'.args[1])
        /\ HasChanges(fs, git, NextRepoDir))
       => /\ call'.trace = <<"add", "commit", "push">>
          /\ git'[NextRepoDir].commits = git[NextRepoDir].commits + 1
          /\ ~HasChanges(fs', git', NextRepoDir)
          /\ call'.ret <=> git'[NextRepoDir].remote = git'[NextRepoDir].commits
          /\ ~call'.ret => git'[NextRepoDir].remote = git[NextRepoDir].remote]_vars

\* the push failed: the call returned False, the commit is in the local
\* repository and not on the remote, and the working tree is clean
C23_Witness ==
    /\ call.fn = "push_changes"
    /\ ~call.dry_run
    /\ ~call.ret
    /\ call.trace = <<"add", "commit", "push">>
    /\ git[CallRepoDir].commits = 1
    /\ git[CallRepoDir].remote = 0
    /\ ~HasChanges(fs, git, CallRepoDir)

\* C19: whenever create_file returns True without dry_run, the file exists and
\* is empty, also when it existed before with content.
C19_CreatedFileIsEmpty ==
    (call.fn = "create_file" /\ call.ret /\ ~call.dry_run)
    => /\ IsFile(fs, ParsePath(call.args[1]))
       /\ fs[Resolve(fs, ParsePath(call.args[1])).path].content = <<>>

\* the answer to the prompt of create_file was 'y' or 'Y'
AnsweredYes(stdin) == ~stdin.eof /\ stdin.line \in {S_y, S_Y}

\* C20: create_file on a file that exists prompts only when overwrite is
\* False; when the answer is not 'y' or 'Y' it returns False and leaves the
\* file and the directories as they were; with overwrite it never prompts.
C20_PromptOnlyWithoutOverwrite ==
    [][(/\ call.fn = ""
        /\ call'.fn = "create_file"
        /\ Exists(fs, ParsePath(call'.args[1])))
       => /\ call'.prompted => ~call'.overwrite
          /\ (call'.prompted /\ ~AnsweredYes(call'.args[2]))
             => (~call'.ret /\ fs' = fs)
          /\ (~call'.overwrite /\ ~AnsweredYes(call'.args[2])) => ~call'.ret
          /\ call'.overwrite => ~call'.prompted]_vars

\* the file r/a exists, the prompt was answered 'n', and the call returned False
C20_Witness ==
    /\ call.fn = "create_file"
    /\ call.args = <<S_r_a, StdinLine(S_n)>>
    /\ ~call.overwrite
    /\ call.prompted
    /\ ~call.ret
    /\ fs[Append(RepoDir, S_a)] = FileEntry(S_data)

-----------------------------------------------------------------------------
(* Properties of the background jobs, checked under JobSpec *)

\* C1: an operation is completed only if the call of its task function returned
\* True, and an operation whose call returned False or raised is failed with an
\* error.  The task functions drop the value the call returns, so a call that
\* returned False ends completed.
C1_CompletedOnlyOnSuccess ==
    \A i \in DOMAIN active_operations :
        /\ active_operations[i].status = "completed" => result[i] = Some(TRUE)
        /\ (pc[i] = "done" /\ result[i] # Some(TRUE)) =>
               /\ active_operations[i].status = "failed"
               /\ active_operations[i].error # None

\* C2: an operation whose task has started is eventually completed or failed
\* for every input, so its task never stops short of its last update to wait
\* for something the server does not provide.  A clone into a non-empty
\* directory and an add-file on an existing file stop inside input(), on the
\* event loop, with the operation left running until a line arrives on the
\* standard input of the server.
C2_NoTaskStops ==
    \A i \in DOMAIN active_operations :
        active_operations[i].status = "running" => pc[i] # "input"

\* the steps a status may take: none, pending to running, running to an end
StatusStep(a, b) ==
    \/ a = b
    \/ a = "pending" /\ b = "running"
    \/ a = "running" /\ b \in Terminal

\* C3: every status is pending, running, completed or failed, and a status only
\* moves pending -> running -> (completed | failed): an operation that is
\* completed or failed stays as it is, and none returns to pending or running.
C3_StatusForwardOnly ==
    /\ [](\A i \in DOMAIN active_operations :
            active_operations[i].status \in {"pending", "running", "completed", "failed"})
    /\ [][\A i \in DOMAIN active_operations :
            /\ i \in DOMAIN active_operations'
            /\ StatusStep(active_operations[i].status, active_operations'[i].status)]_vars

\* one operation ended completed and another ended failed
C3_Witness ==
    \E i, j \in DOMAIN active_operations :
        /\ active_operations[i].status = "completed"
        /\ active_operations[j].status = "failed"

\* C7: a completed add-file operation means the file repo_path/section/filename
\* exists, whatever the content of the request.  A non-empty content is taken
\* for dry_run, so the operation completes and no file is made.
C7_CompletedAddFileExists ==
    \A i \in DOMAIN active_operations :
        (/\ active_operations[i].type = "add-file"
         /\ active_operations[i].status = "completed"
         /\ active_operations[i].message = "File created successfully")
        => Exists(fs, SectionFile(active_operations[i].params.repo_path,
                                  active_operations[i].params.section,
                                  active_operations[i].params.filename))

\* what add_file_to_section does from the command line with the arguments of
\* the operation, without --dry-run and without --overwrite
CliAddFile(params) ==
    add_file_to_section(fs, params.repo_path, params.section, params.filename,
                        FALSE, FALSE, StdinEOF)

\* C8: when add_file_to_section succeeds on (repo_path, section, filename)
\* without dry_run, the add-file job with these arguments is not failed and
\* leaves the filesystem as the direct call does.  The job rejects an absolute
\* repo_path with is_valid_path, and creates nothing for a non-empty content.
C8_JobSameAsCli ==
    [][\A i \in DOMAIN active_operations :
         (/\ active_operations[i].type = "add-file"
          /\ pc[i] = "running"
          /\ pc'[i] = "done"
          /\ CliAddFile(active_operations[i].params).ret)
         => /\ active_operations'[i].status = "completed"
            /\ fs' = CliAddFile(active_operations[i].params).fs]_vars

\* C24: in every state of the operation map, completed_at is set exactly on the
\* completed and failed operations; a completed operation has a result and no
\* error, a failed one an error and no result, a pending or running one neither.
C24_FieldsFollowStatus ==
    \A i \in DOMAIN active_operations :
        LET operation == active_operations[i] IN
        /\ operation.completed_at # None
           <=> operation.status \in {"completed", "failed"}
        /\ operation.status = "completed"
           => (operation.result # None /\ operation.error = None)
        /\ operation.status = "failed"
           => (operation.error # None /\ operation.result = None)
        /\ operation.status \in {"pending", "running"}
           => (operation.result = None /\ operation.error = None)

\* one operation has completed and another has failed
C24_Witness ==
    \E i \in DOMAIN active_operations, j \in DOMAIN active_operations :
        /\ active_operations[i].status = "completed"
        /\ active_operations[i].result # None
        /\ active_operations[j].status = "failed"
        /\ active_operations[j].error # None
        /\ active_operations[j].completed_at # None

-----------------------------------------------------------------------------
(* Properties of the request handlers, checked under Spec *)

\* C4: no operation leaves active_operations, and GET /api/operations/{id}
\* with the valid key answers 404 exactly when the id is not in the map, so
\* never for an id create_operation has issued.
C4_MapOnlyGrows ==
    /\ []((/\ response.endpoint = "/api/operations/{id}"
           /\ response.key = ApiKey)
          => (response.code = 404 <=> response.id[1] \notin DOMAIN active_operations))
    /\ [][DOMAIN active_operations \subseteq DOMAIN active_operations']_vars

\* the operation asked for is in the map and the answer is not 404, while
\* another id was never issued
C4_Witness ==
    /\ response.endpoint = "/api/operations/{id}"
    /\ response.key = ApiKey
    /\ response.id # None
    /\ response.id[1] \in DOMAIN active_operations
    /\ response.code # 404
    /\ OpIds \ DOMAIN active_operations # {}

\* C5: a request on an endpoint that asks for the key, sent with another
\* credential, is answered 401, and no operation is created, changed or
\* started by it.
C5_WrongKeyRejected ==
    [][(/\ response = NoResponse
        /\ response' # NoResponse
        /\ response'.endpoint # "/status"
        /\ response'.key # ApiKey)
       => /\ response'.code = 401
          /\ UNCHANGED <<active_operations, pc, loop, result, streams, fs, git>>]_vars

\* a submit with a wrong key was answered 401 while operations exist
C5_Witness ==
    /\ response.endpoint = "/api/add-file"
    /\ response.key # ApiKey
    /\ response.code = 401
    /\ active_operations # <<>>

SubmitEndpoints == {"/api/clone", "/api/push", "/api/add-file"}

\* C21: a submit request with the right key adds one entry under an id not
\* present before, pending, with completed_at, result and error null, changes
\* no other entry, and is answered with that entry.
C21_SubmitAddsOneEntry ==
    [][(/\ response = NoResponse
        /\ response'.endpoint \in SubmitEndpoints
        /\ verify_api_key(response'.key))
       => \E i \in DOMAIN active_operations' \ DOMAIN active_operations :
            /\ DOMAIN active_operations' = DOMAIN active_operations \cup {i}
            /\ \A j \in DOMAIN active_operations :
                  active_operations'[j] = active_operations[j]
            /\ active_operations'[i].status = "pending"
            /\ active_operations'[i].completed_at = None
            /\ active_operations'[i].result = None
            /\ active_operations'[i].error = None
            /\ response'.code = 200
            /\ response'.id = Some(i)
            /\ response'.body = OperationResponse(active_operations'[i])
            /\ response'.body # None]_vars

\* the same without the answer: the entry is added as C21 says
C21_EntryAdded ==
    [][(/\ response = NoResponse
        /\ response'.endpoint \in SubmitEndpoints
        /\ verify_api_key(response'.key))
       => \E i \in DOMAIN active_operations' \ DOMAIN active_operations :
            /\ DOMAIN active_operations' = DOMAIN active_operations \cup {i}
            /\ \A j \in DOMAIN active_operations :
                  active_operations'[j] = active_operations[j]
            /\ active_operations'[i].status = "pending"
            /\ active_operations'[i].completed_at = None
            /\ active_operations'[i].result = None
            /\ active_operations'[i].error = None]_vars

-----------------------------------------------------------------------------
(* Properties of the direct calls, checked under CliSpec (continued) *)

\* C11: clone_repository with a URL that is_valid_repo_url rejects returns
\* False, with and without dry_run, and before anything else: it does not
\* prompt, it creates no directory and it does not clone.
C11_InvalidUrlRefused ==
    [][(/\ call = NoCall
        /\ call'.fn = "clone_repository"
        /\ ~is_valid_repo_url(call'.args[1]))
       => /\ ~call'.ret
          /\ ~call'.prompted
          /\ call'.created = {}
          /\ fs' = fs
          /\ git' = git]_vars

\* a rejected URL was refused on a non-empty directory, where a valid one
\* makes the call prompt
C11_Witness ==
    /\ call.fn = "clone_repository"
    /\ call.args = <<U_other_host, S_r>>
    /\ ~is_valid_repo_url(U_other_host)
    /\ DirNonEmpty(fs, ParsePath(S_r))
    /\ ~call.ret

-----------------------------------------------------------------------------
(* The validation functions called on their own *)

\* the URLs validated: what stands before "//", the authority, the rest
UrlPrefixes ==
    {<<"h", "t", "t", "p", "s", ":">>,
     <<>>,
     <<"g", "i", "t", ":">>,
     <<" ", "h", "t", "t", "p", "s", ":">>}
UrlAuthorities ==
    {<<"g", "i", "t", "h", "u", "b", ".", "c", "o", "m">>,
     <<"w", "w", "w", ".", "g", "i", "t", "h", "u", "b", ".", "c", "o", "m">>,
     <<"g", "i", "t", "l", "a", "b", ".", "c", "o", "m">>,
     <<"G", "i", "t", "H", "u", "b", ".", "c", "o", "m">>,
     <<"g", "i", "t", "h", "u", "b", ".", "c", "o", "m", ":", "4", "4", "3">>,
     <<"u", "@", "g", "i", "t", "h", "u", "b", ".", "c", "o", "m">>,
     <<>>}
UrlPaths ==
    {<<"/", "u", "/", "r">>,
     <<"/", "u", "/", "r", ".", "g", "i", "t">>,
     <<"/", "u">>,
     <<"/">>,
     <<"/", "u", "/", "/", "r">>,
     <<"/", "u", "/", "r", " ", "s">>,
     <<"/", "u", "/", ".", "g", "i", "t">>,
     <<"/", "u", "/", "r", ";", "x">>,
     <<"/", "u", "/", "r", "?", "q">>,
     <<"/", "u", "/", "r", "/", "x">>,
     <<"/", "u", "-", "n", "/", "r", "_", "n", ".", "g", "i", "t">>,
     <<"/", "u", "/", "r", "\n">>,
     <<"/", "u", "_", "1", "/", "R", ".", "x", "#", "f">>}

UrlInputs ==
    {a \o <<"/", "/">> \o b \o c : a \in UrlPrefixes, b \in UrlAuthorities, c \in UrlPaths}
    \cup {<<>>, <<"n", "o", "t", "_", "a", "_", "u", "r", "l">>}

call_is_valid_repo_url ==
    \E url \in UrlInputs :
        /\ call.fn = ""
        /\ call' = Called("is_valid_repo_url", <<url>>, FALSE, FALSE,
                          is_valid_repo_url(url), FALSE, <<>>, fs)
        /\ UNCHANGED <<fs, git, serverVars>>

\* the names validated: a stem and what follows it, and names of 255 and 256
\* characters
NameStems ==
    {<<"a">>, <<"c", "o", "n">>, <<"C", "O", "N">>, <<"C", "o", "m", "1">>,
     <<"L", "P", "T", "9">>, <<"a", "u", "x">>, <<"C", "O", "M", "0">>,
     <<"L", "P", "T">>, <<"n", "u", "l">>, <<"p", "r", "n">>, <<"x", "<">>,
     <<"a", ":", "b">>, <<"a", "/", "b">>, <<"a", "\\", "b">>, <<"a", "|", "b">>,
     <<"a", "?">>, <<"a", "*">>, <<"a", "\"", "b">>, <<"a", ">", "b">>, <<>>, <<" ">>,
     <<" ", " ", "\t">>, <<" ", "a">>, <<".", ".">>, <<".", "g", "i", "t">>,
     <<"C", "O", "N", " ">>, <<"r", " ", "s">>}
NameEndings ==
    {<<>>, <<".", "t", "x", "t">>, <<".">>, <<".", "t", "a", "r", ".", "g", "z">>}

FilenameInputs ==
    {a \o b : a \in NameStems, b \in NameEndings}
    \cup {[i \in 1..n |-> "a"] : n \in {MaxFilenameLen, MaxFilenameLen + 1}}

call_is_valid_filename ==
    \E filename \in FilenameInputs :
        /\ call.fn = ""
        /\ call' = Called("is_valid_filename", <<filename>>, FALSE, FALSE,
                          is_valid_filename(filename), FALSE, <<>>, fs)
        /\ UNCHANGED <<fs, git, serverVars>>

\* the paths validated: one or two pieces around a '/', behind nothing, '/'
\* or '//'
PathPieces ==
    {<<"a">>, <<".", ".">>, <<".">>, <<>>, <<"c", "o", "n">>, <<"b", " ", "c">>,
     <<"x", "*">>, <<" ">>, <<"s", "r", "c">>}
PathRoots ==
    {<<>>, <<"/">>, <<"/", "/">>}

PathInputs ==
    {r \o a : r \in PathRoots, a \in PathPieces}
    \cup {r \o a \o <<"/">> \o b : r \in PathRoots, a \in PathPieces, b \in PathPieces}

call_is_valid_path ==
    \E path \in PathInputs :
        /\ call.fn = ""
        /\ call' = Called("is_valid_path", <<path>>, FALSE, FALSE, is_valid_path(path),
                          FALSE, <<>>, fs)
        /\ UNCHANGED <<fs, git, serverVars>>

ValidationNext ==
    \/ cli_exit
    \/ call_is_valid_repo_url
    \/ call_is_valid_filename
    \/ call_is_valid_path

ValidationSpec == Init /\ [][ValidationNext]_vars

\* the host of an authority: what follows the last '@', up to the port, in
\* lower case
RECURSIVE AfterLastAt(_)
AfterLastAt(s) ==
    IF FirstIndex(s, "@") = 0 THEN s
    ELSE AfterLastAt(SubSeq(s, FirstIndex(s, "@") + 1, Len(s)))
UrlHost(netloc) == StrLower(UpTo(AfterLastAt(netloc), {":"}))

\* a non-empty name of letters, digits, '.', '_' and '-'
RepoNameOk(s) == Len(s) > 0 /\ \A j \in 1..Len(s) : s[j] \in RepoNameChars

WithoutGitSuffix(s) ==
    IF EndsWith(s, S_git_suffix) THEN SubSeq(s, 1, Len(s) - 4) ELSE s

\* the URLs the function is said to accept
RepoUrlExpected(url) ==
    LET segments == Split(StripSlash(urlparse(url).path), "/")
    IN  /\ UrlHost(urlparse(url).netloc) \in {S_github_com, S_www_github_com}
        /\ Len(segments) >= 2
        /\ RepoNameOk(segments[1])
        /\ RepoNameOk(WithoutGitSuffix(segments[2]))

\* C12: is_valid_repo_url returns True exactly when the host of the URL is
\* github.com or www.github.com and the first two segments of its path, the
\* user and the repository without one trailing ".git", are non-empty names of
\* letters, digits, '.', '_' and '-'.  The function compares the whole
\* authority with the two names, so a URL of that host with a port, with user
\* information or in another letter case is refused.
C12_TrueExactlyForGithubRepos ==
    call.fn = "is_valid_repo_url" => (call.ret <=> RepoUrlExpected(call.args[1]))

\* the names the function is said to refuse
FilenameRefused(name) ==
    \/ \E i \in 1..Len(name) : name[i] \in {"<", ">", ":", "\"", "/", "\\", "|", "?", "*"}
    \/ \E reserved \in ReservedNames :
         LET dot == FirstIndex(name, ".")
             stem == IF dot = 0 THEN name ELSE SubSeq(name, 1, dot - 1)
         IN  StrUpper(stem) = StrUpper(reserved)
    \/ Len(name) > 255
    \/ \A i \in 1..Len(name) : name[i] \in Whitespace

\* C13: is_valid_filename returns False exactly when the name holds one of
\* < > : " / \ | ? *, or its part before the first '.' is a reserved name in
\* any letter case, or it has more than 255 characters, or it is empty or
\* white space only; it returns True for every other name.
C13_FalseExactlyForRefusedNames ==
    call.fn = "is_valid_filename" => (call.ret <=> ~FilenameRefused(call.args[1]))

\* a reserved name in lower case with an extension was refused
C13_Witness ==
    /\ call.fn = "is_valid_filename"
    /\ call.args = <<<<"c", "o", "n", ".", "t", "x", "t">>>>
    /\ ~call.ret

\* the components of a path: the names between its slashes, the empty ones
\* and "." left out
PathComponents(path) ==
    SelectSeq(Split(path, "/"), LAMBDA c : c # <<>> /\ c # <<".">>)

IsRelative(path) == Len(path) = 0 \/ path[1] # "/"

\* C14: is_valid_path returns False for every path with a ".." component or
\* with a component that is_valid_filename rejects, and True for every
\* relative path whose components are all valid filenames, ".." (refused by
\* the first rule) not among them.  It has no outcome but these two values.
C14_PathAcceptedByComponents ==
    call.fn = "is_valid_path" =>
        LET parts == PathComponents(call.args[1])
            dotdot == \E i \in 1..Len(parts) : parts[i] = <<".", ".">>
            rejected == \E i \in 1..Len(parts) : ~is_valid_filename(parts[i])
        IN  /\ call.ret \in BOOLEAN
            /\ (dotdot \/ rejected) => ~call.ret
            /\ (IsRelative(call.args[1]) /\ ~dotdot /\ ~rejected) => call.ret

\* a relative path of valid names with a ".." in front was refused
C14_Witness ==
    /\ call.fn = "is_valid_path"
    /\ call.args = <<<<".", ".", "/", "a">>>>
    /\ ~call.ret

-----------------------------------------------------------------------------
(* The configuration, checked under ConfigSpec *)

\* what the configuration file may hold when the tool starts: texts that are
\* no JSON, objects with some of the keys, and what init_config writes
ConfigTexts ==
    {S_data, <<>>, <<"{", "}">>, <<"[", "]">>,
     <<"{", "\"", "g", "i", "t", "h", "u", "b", "_", "t", "o", "k", "e", "n", "\"", ":", " ", "\"", "k", "\"", "}">>,
     <<"{", "\"", "d", "e", "f", "a", "u", "l", "t", "_", "b", "r", "a", "n", "c", "h", "\"", ":", "\"", "v", "\"", "}">>,
     <<"{", " ", "\"", "l", "o", "g", "_", "l", "e", "v", "e", "l", "\"", ":", " ", "\"", "I", "N", "F", "O", "\"", ",", " ", "\"", "g", "i", "t", "h", "u", "b", "_", "t", "o", "k", "e", "n", "\"", ":", " ", "\"", "\"", " ", "}">>,
     json_dump(default_config),
     json_dump(DictUpdate(default_config,
                          [k \in {K_github_token, K_default_branch} |->
                              IF k = K_github_token THEN S_token ELSE <<"v">>]))}

\* the filesystem of Init with the configuration file absent, a directory, or a
\* file with one of the texts
ConfigFilesystems ==
    {InitFs, Put(InitFs, ConfigFile, DirEntry)}
    \cup {Put(InitFs, ConfigFile, FileEntry(text)) : text \in ConfigTexts}

ConfigInit ==
    /\ fs \in ConfigFilesystems
    /\ git = InitGit
    /\ call = NoCall
    /\ active_operations = <<>>
    /\ loop = {}
    /\ pc = <<>>
    /\ result = <<>>
    /\ response = NoResponse
    /\ streams = <<>>
    /\ clock = 1

\* os.getenv('GITHUB_TOKEN'): not set, empty, or a token
EnvTokens == {None, Some(<<>>), Some(<<"e">>)}

call_load_config ==
    \E env \in EnvTokens :
        /\ call.fn = ""
        /\ call' = Called("load_config", <<env>>, FALSE, FALSE, load_config(fs, env),
                          FALSE, <<>>, fs)
        /\ UNCHANGED <<fs, git, serverVars>>

call_get_github_token ==
    \E env \in EnvTokens :
        /\ call.fn = ""
        /\ call' = Called("get_github_token", <<env>>, FALSE, FALSE,
                          get_github_token(fs, env), FALSE, <<>>, fs)
        /\ UNCHANGED <<fs, git, serverVars>>

call_get_default_branch ==
    \E env \in EnvTokens :
        /\ call.fn = ""
        /\ call' = Called("get_default_branch", <<env>>, FALSE, FALSE,
                          get_default_branch(fs, env), FALSE, <<>>, fs)
        /\ UNCHANGED <<fs, git, serverVars>>

\* the lines typed at the prompts of init_config, and the standard input of
\* one run: up to three of them, then end of file
ConfigLines == {S_y, S_Y, S_n, <<>>, <<" ", "k">>}
ConfigStdins ==
    {<<>>} \cup {<<a>> : a \in ConfigLines}
    \cup {<<a, b>> : a \in ConfigLines, b \in ConfigLines}
    \cup {<<a, b, c>> : a \in ConfigLines, b \in ConfigLines, c \in ConfigLines}

call_init_config ==
    \E lines \in ConfigStdins :
        /\ call.fn = ""
        /\ \E r \in {init_config(fs, lines)} :
               /\ fs' = r.fs
               /\ call' = Called("init_config", <<lines>>, FALSE, FALSE, r.ret,
                                 ConfigFile \in DOMAIN fs, <<>>, r.fs)
        /\ UNCHANGED <<git, serverVars>>

ConfigNext ==
    \/ cli_exit
    \/ call_load_config
    \/ call_get_github_token
    \/ call_get_default_branch
    \/ call_init_config

ConfigSpec == ConfigInit /\ [][ConfigNext]_vars

\* the object the configuration file holds, when it is a file that holds one
FileConfigKnown == IsFile(fs, [root |-> <<"/">>, names |-> ConfigFile])
                   /\ json_load(fs[ConfigFile].content).ok
FileConfig == json_load(fs[ConfigFile].content).value

\* C15: load_config gives github_token as the GITHUB_TOKEN of the environment
\* when that is set and not empty, else as the value of the file, else as '';
\* default_branch as the value of the file, else as 'main'.  A file that cannot
\* be read or parsed counts as a file without values.
C15_ConfigPrecedence ==
    call.fn = "load_config" =>
        /\ call.ret[K_github_token] =
             IF call.args[1] # None /\ call.args[1][1] # <<>> THEN call.args[1][1]
             ELSE IF FileConfigKnown /\ K_github_token \in DOMAIN FileConfig
             THEN FileConfig[K_github_token]
             ELSE <<>>
        /\ call.ret[K_default_branch] =
             IF FileConfigKnown /\ K_default_branch \in DOMAIN FileConfig
             THEN FileConfig[K_default_branch]
             ELSE S_main

\* the file holds a token and the environment another: the environment's is
\* the one loaded
C15_Witness ==
    /\ call.fn = "load_config"
    /\ call.args = <<Some(<<"e">>)>>
    /\ FileConfigKnown
    /\ K_github_token \in DOMAIN FileConfig
    /\ FileConfig[K_github_token] = S_token
    /\ call.ret[K_github_token] = <<"e">>

\* C16: get_github_token returns None exactly when the token load_config
\* resolves is empty or missing, and the resolved token itself otherwise.
C16_TokenOrNone ==
    call.fn = "get_github_token" =>
        IF \/ K_github_token \notin DOMAIN load_config(fs, call.args[1])
           \/ load_config(fs, call.args[1])[K_github_token] = <<>>
        THEN call.ret = None
        ELSE call.ret = Some(load_config(fs, call.args[1])[K_github_token])

\* the file holds an empty token, the environment none: None is returned
C16_Witness ==
    /\ call.fn = "get_github_token"
    /\ call.args = <<None>>
    /\ FileConfigKnown
    /\ K_github_token \in DOMAIN FileConfig
    /\ FileConfig[K_github_token] = <<>>
    /\ call.ret = None

\* what a prompt's entry leaves in the file: the entry without the white space
\* around it, or the default for a blank entry
EntryOrDefault(entry, default) ==
    IF \A i \in 1..Len(entry) : entry[i] \in Whitespace THEN default ELSE Strip(entry)

\* the lines of a run of init_config after the answer to the overwrite prompt
EntriesOf(lines, existed) == IF existed THEN Tail(lines) ELSE lines

\* C17: when the configuration file exists and the answer to the overwrite
\* prompt is not 'y' or 'Y', init_config returns False and changes nothing;
\* otherwise, the token and the branch being entered, it returns True and the
\* file holds the two entries, '' and 'main' standing for a blank one.  (The
\* path is not a directory and the standard input does not end at a prompt.)
C17_InitConfig ==
    [][(call.fn = "" /\ call'.fn = "init_config") =>
         IF ConfigFile \in DOMAIN fs /\ Len(call'.args[1]) > 0
            /\ call'.args[1][1] \notin {S_y, S_Y}
         THEN ~call'.ret /\ fs' = fs
         ELSE (/\ ~(ConfigFile \in DOMAIN fs /\ fs[ConfigFile].kind = "dir")
               /\ ~(ConfigFile \in DOMAIN fs /\ Len(call'.args[1]) = 0)
               /\ Len(EntriesOf(call'.args[1], ConfigFile \in DOMAIN fs)) >= 2)
              => /\ call'.ret
                 /\ fs'[ConfigFile].kind = "file"
                 /\ json_load(fs'[ConfigFile].content).ok
                 /\ json_load(fs'[ConfigFile].content).value[K_github_token] =
                      EntryOrDefault(EntriesOf(call'.args[1],
                                               ConfigFile \in DOMAIN fs)[1], <<>>)
                 /\ json_load(fs'[ConfigFile].content).value[K_default_branch] =
                      EntryOrDefault(EntriesOf(call'.args[1],
                                               ConfigFile \in DOMAIN fs)[2], S_main)]_vars

\* an existing file was overwritten after the answer 'Y', with a token entered
\* and the branch left blank
C17_Witness ==
    /\ call.fn = "init_config"
    /\ call.prompted
    /\ call.args = <<<<S_Y, <<" ", "k">>, <<>>>>>>
    /\ call.ret
    /\ FileConfigKnown
    /\ FileConfig[K_github_token] = <<"k">>
    /\ FileConfig[K_default_branch] = S_main

-----------------------------------------------------------------------------
(* Properties of the /events streams: C18 and C25 are checked under EventSpec,
   C26 and C27 under StreamSpec *)

\* the stream sent an operation_update of the operation with this status
Delivered(s, operation_id, status) ==
    \E k \in 1..Len(streams[s].events) :
        /\ streams[s].events[k].type = "operation_update"
        /\ streams[s].events[k].operation_id = operation_id
        /\ streams[s].events[k].status = status

\* C18: every change of an operation's status while a stream is connected is
\* delivered on that stream.  A stream that sent the operation as pending was
\* connected at each later change; once line 372 finds nothing of the
\* operation left to send, which no step alters afterwards, the stream has sent
\* the status the operation now has.
C18_ChangesDelivered ==
    \A s \in DOMAIN streams, i \in DOMAIN active_operations :
        (/\ streams[s].open
         /\ Delivered(s, i, "pending")
         /\ active_operations[i].status \in {"running", "completed", "failed"}
         /\ ~Modified(active_operations[i]))
        => Delivered(s, i, active_operations[i].status)

\* line 372 never finds again an operation it has sent once
C18_SentOnce ==
    [][\A i \in DOMAIN active_operations :
          ~Modified(active_operations[i]) => ~Modified(active_operations'[i])]_vars

\* a request handler answers in this step
HandlerRuns == response = NoResponse /\ response'.endpoint # ""

\* the generator of a stream runs in this step
GeneratorRuns ==
    \E s \in DOMAIN streams :
        \/ streams'[s].at # streams[s].at
        \/ Len(streams'[s].events) # Len(streams[s].events)

\* C25: a job holds the event loop from its running update to its terminal
\* update, so no handler and no generator runs while an operation is running,
\* and every status a stream has sent is pending, completed or failed.
C25_RunningNeverObserved ==
    /\ [](\A i \in DOMAIN active_operations :
            active_operations[i].status = "running" => loop = {i})
    /\ [][(HandlerRuns \/ GeneratorRuns)
          => \A i \in DOMAIN active_operations :
                active_operations[i].status # "running"]_vars
    /\ [](\A s \in DOMAIN streams, i \in DOMAIN active_operations :
            ~Delivered(s, i, "running"))

\* a job has run to its end, a stream has sent the operation as completed, and
\* GET /status is answered
C25_Witness ==
    /\ response.endpoint = "/status"
    /\ \E s \in DOMAIN streams, i \in DOMAIN active_operations :
          /\ pc[i] = "done"
          /\ Delivered(s, i, "completed")

\* C26: an open stream is not ended by a submit that adds an operation while
\* its generator is suspended inside the for loop: every stream keeps running
\* and none has sent an error event.
C26_StreamSurvivesSubmit ==
    \A s \in DOMAIN streams :
        /\ streams[s].open
        /\ \A k \in 1..Len(streams[s].events) : streams[s].events[k].type # "error"

\* the operation_update events of an operation, over all streams
UpdatesOf(operation_id) ==
    {e \in {<<s, k>> : s \in DOMAIN streams, k \in 1..(MaxOps + 2)} :
        /\ e[2] <= Len(streams[e[1]].events)
        /\ streams[e[1]].events[e[2]].type = "operation_update"
        /\ streams[e[1]].events[e[2]].operation_id = operation_id}

\* C27: over all streams together, an operation has at most one
\* operation_update event in its whole life.
C27_OneUpdatePerOperation ==
    \A i \in DOMAIN active_operations : Cardinality(UpdatesOf(i)) <= 1

=============================================================================
